---- MODULE Spec2Model ----
(***************************************************************************)
(* The identity watcher of pkg/identity/cache: collectEvent and the        *)
(* goroutine started by identityWatcher.watch, together with the producer  *)
(* of the allocator event channel, stop(), and an owner that applies the   *)
(* delivered batches.                                                      *)
(***************************************************************************)
EXTENDS Integers, Sequences, FiniteSets, TLC

(***************************************************************************)
(* Bounds of the model.                                                    *)
(***************************************************************************)
\* number of events the producer sends in a behaviour of Spec
MaxEvents == 3
\* buffer size of the allocator event channel
ChanCap == 3

(***************************************************************************)
(* Data: numeric identities, label arrays, allocator keys and events.      *)
(***************************************************************************)
IDs == {7, 8}

LabelArrays == {{"app=foo"}, {"app=bar"}}

\* labels.LabelArray{}
EmptyLabelArray == {}

\* cache.GlobalIdentity{LabelArray}: the recognized label-bearing key
GlobalIdentity(lbls) == [kind |-> "GlobalIdentity", LabelArray |-> lbls]

\* any other allocator.AllocatorKey implementation
OtherKey == [kind |-> "other", LabelArray |-> EmptyLabelArray]

\* a nil key ("Only create events have the key")
NilKey == [kind |-> "nil", LabelArray |-> EmptyLabelArray]

EventTypeCreate == "create"
EventTypeModify == "modify"
EventTypeDelete == "delete"

\* allocator.AllocatorEvent; seq is the position of the event in the
\* producer's stream (0 when the stream is not recorded)
AllocatorEvent(typ, id, key, seq) ==
    [Typ |-> typ, ID |-> id, Key |-> key, seq |-> seq]

\* the events a producer can put on the channel, for a given position
EventsAt(seq) ==
    {AllocatorEvent(EventTypeCreate, id, GlobalIdentity(l), seq) :
        id \in IDs, l \in LabelArrays}
    \cup {AllocatorEvent(EventTypeCreate, id, OtherKey, seq) : id \in IDs}
    \cup {AllocatorEvent(EventTypeDelete, id, NilKey, seq) : id \in IDs}
    \cup {AllocatorEvent(EventTypeModify, id, NilKey, seq) : id \in IDs}

(***************************************************************************)
(* IdentityCache: map[NumericIdentity]LabelArray as a function whose       *)
(* domain is the set of keys present.                                      *)
(***************************************************************************)
IdentityCache == [k \in {} |-> EmptyLabelArray]

\* m[k] = v
MapSet(m, k, v) ==
    [x \in (DOMAIN m) \cup {k} |-> IF x = k THEN v ELSE m[x]]

\* delete(m, k)
MapDelete(m, k) ==
    [x \in (DOMAIN m) \ {k} |-> m[x]]

(***************************************************************************)
(* Variants of collectEvent with one of its steps missing; the claims are  *)
(* checked to tell collectEvent from each of them.                         *)
(***************************************************************************)
\* a Create that does not un-delete the id
collectEvent_noUndelete(event, a, d) ==
    LET id == event.ID IN
    IF event.Typ = "create"
    THEN IF event.Key.kind = "GlobalIdentity"
         THEN [ok |-> TRUE,
               added |-> MapSet(a, id, event.Key.LabelArray),
               deleted |-> d]
         ELSE [ok |-> FALSE, added |-> a, deleted |-> d]
    ELSE [ok |-> TRUE,
          added |-> MapDelete(a, id),
          deleted |-> MapSet(d, id, {})]

\* a Delete that does not reverse the add
collectEvent_noRetract(event, a, d) ==
    LET id == event.ID IN
    IF event.Typ = "create"
    THEN IF event.Key.kind = "GlobalIdentity"
         THEN [ok |-> TRUE,
               added |-> MapSet(a, id, event.Key.LabelArray),
               deleted |-> MapDelete(d, id)]
         ELSE [ok |-> FALSE, added |-> a, deleted |-> d]
    ELSE [ok |-> TRUE,
          added |-> a,
          deleted |-> MapSet(d, id, {})]

\* a Delete that only reverses the add when there is one, and records the
\* deletion otherwise
collectEvent_cancelOut(event, a, d) ==
    LET id == event.ID IN
    IF event.Typ = "create"
    THEN IF event.Key.kind = "GlobalIdentity"
         THEN [ok |-> TRUE,
               added |-> MapSet(a, id, event.Key.LabelArray),
               deleted |-> MapDelete(d, id)]
         ELSE [ok |-> FALSE, added |-> a, deleted |-> d]
    ELSE [ok |-> TRUE,
          added |-> MapDelete(a, id),
          deleted |-> IF id \in DOMAIN a THEN d ELSE MapSet(d, id, {})]

\* collectEvent that keeps the labels an id already has in added
collectEvent_keepFirst(event, a, d) ==
    LET id == event.ID IN
    IF event.Typ = EventTypeCreate
    THEN IF event.Key.kind = "GlobalIdentity"
         THEN [ok |-> TRUE,
               added |-> IF id \in DOMAIN a
                         THEN a
                         ELSE MapSet(a, id, event.Key.LabelArray),
               deleted |-> MapDelete(d, id)]
         ELSE [ok |-> FALSE, added |-> a, deleted |-> d]
    ELSE [ok |-> TRUE,
          added |-> MapDelete(a, id),
          deleted |-> MapSet(d, id, EmptyLabelArray)]

\* collectEvent without the return false of an unrecognized key: the event
\* falls through to the delete path
collectEvent_fallThrough(event, a, d) ==
    LET id == event.ID IN
    IF event.Typ = EventTypeCreate /\ event.Key.kind = "GlobalIdentity"
    THEN [ok |-> TRUE,
          added |-> MapSet(a, id, event.Key.LabelArray),
          deleted |-> MapDelete(d, id)]
    ELSE [ok |-> TRUE,
          added |-> MapDelete(a, id),
          deleted |-> MapSet(d, id, EmptyLabelArray)]

(***************************************************************************)
(* collectEvent: returns the bool result and the two maps after the call.  *)
(***************************************************************************)
collectEvent(event, a, d) ==
    LET id == event.ID IN
    IF event.Typ = EventTypeCreate
    THEN IF event.Key.kind = "GlobalIdentity"
         THEN [ok |-> TRUE,
               added |-> MapSet(a, id, event.Key.LabelArray),
               deleted |-> MapDelete(d, id)]
         ELSE [ok |-> FALSE, added |-> a, deleted |-> d]
    ELSE [ok |-> TRUE,
          added |-> MapDelete(a, id),
          deleted |-> MapSet(d, id, EmptyLabelArray)]

\* the loops of watch without the switch on event.Typ: every event goes to
\* collectEvent
switchCollect_noSwitch(event, a, d) ==
    collectEvent(event, a, d)

\* the switch on event.Typ in both loops of watch: Create and Delete go to
\* collectEvent, anything else is ignored
switchCollect(event, a, d) ==
    IF event.Typ \in {EventTypeCreate, EventTypeDelete}
    THEN collectEvent(event, a, d)
    ELSE [ok |-> FALSE, added |-> a, deleted |-> d]

(***************************************************************************)
(* State.                                                                  *)
(***************************************************************************)
VARIABLES
    events,         \* the AllocatorEventChan: buffered events, oldest first
    closed,         \* the producer has closed the event channel
    stopChan,       \* w.stopChan has been closed by stop()
    pc,             \* position of the watcher goroutine
    added,          \* the watcher's added map of the current iteration
    deleted,        \* the watcher's deleted map of the current iteration
    ownerCache,     \* history: the owner's identity map, built from batches
    refCache,       \* history: identity map built from the events one by one
    closedSeen,     \* history: the watcher found the channel closed in More
    sentCount,      \* history: number of events sent
    recvLog,        \* history: seq of the collected events, in receive order
    deliveredLog,   \* history: seq of the events of delivered batches
    iterEvents,     \* history: events collected in the current iteration
    queuedAtFirst,  \* history: seq of events queued at the first collection
    callbackCount,  \* history: number of UpdateIdentities calls
    ignored,        \* history: type and place of the events not collected
    panicked,       \* the process has ended in a run-time panic
    stopLog,        \* history: the place of the watcher at each stop()
    closeQueue,     \* history: seq of the Creates and Deletes queued at closure
    allocNil,       \* m.IdentityAllocator == nil
    allocCache,     \* the allocator's cache: id -> allocator key
    allocFails,     \* the allocator's Get and GetByID return an error
    localNil,       \* m.localIdentities == nil
    localCache,     \* the node-local identities: id -> labels
    call,           \* the read operation called last, with its argument
    result,         \* what that call returned
    response        \* the response of the API handler that made the call

codeVars == <<events, closed, stopChan, pc, added, deleted>>
histVars == <<ownerCache, refCache, closedSeen, sentCount, recvLog,
              deliveredLog, iterEvents, queuedAtFirst, callbackCount>>
mgrVars == <<allocNil, allocCache, allocFails, localNil, localCache>>
readVars == <<allocNil, allocCache, allocFails, localNil, localCache,
              call, result, response>>
vars == <<events, closed, stopChan, pc, added, deleted,
          ownerCache, refCache, closedSeen,
          sentCount, recvLog, deliveredLog, iterEvents, queuedAtFirst,
          callbackCount, ignored, panicked, stopLog, closeQueue,
          allocNil, allocCache, allocFails, localNil, localCache,
          call, result, response>>

WatcherInit ==
    /\ events = <<>>
    /\ closed = FALSE
    /\ stopChan = FALSE
    /\ pc = "First"
    /\ added = IdentityCache
    /\ deleted = IdentityCache
    /\ ownerCache = IdentityCache
    /\ refCache = IdentityCache
    /\ closedSeen = FALSE
    /\ sentCount = 0
    /\ recvLog = <<>>
    /\ deliveredLog = <<>>
    /\ iterEvents = <<>>
    /\ queuedAtFirst = {}
    /\ callbackCount = 0
    /\ ignored = {}
    /\ panicked = FALSE
    /\ stopLog = <<>>
    /\ closeQueue = {}

(***************************************************************************)
(* The read path of CachingIdentityAllocator: its three sources and the    *)
(* values its operations return. Labels and LabelArray are both held as    *)
(* the set of their labels (a LabelArray is that set sorted), so           *)
(* Labels.LabelArray() keeps the set.                                      *)
(***************************************************************************)
\* identity.IdentityUnknown
IdentityUnknown == 0

\* idpool.NoID
NoID == 0

\* the label sets of the read path
ReadLabels == {{"app=foo"}, {"app=bar"}, {"reserved:world"}}

\* identity.ReservedIdentityCache: the fixed reserved identities
ReservedIdentityCache == [k \in {1} |-> {"reserved:world"}]

\* the ids the allocator's cache may hold, and the node-local store
AllocIDs == {1, 7, 8}
LocalIDs == {1, 7}

\* the ids LookupIdentityByID is called with
LookupIDs == {IdentityUnknown, 1, 7, 8}

\* the allocator keys a cache entry may have: a GlobalIdentity, another
\* key type, or nil
AllocatorKeys ==
    {GlobalIdentity(l) : l \in ReadLabels} \cup {OtherKey, NilKey}

\* the results of the operations
NoResult ==
    [kind |-> "none", ID |-> 0, Labels |-> {}, cache |-> IdentityCache,
     list |-> <<>>]

\* a nil *identity.Identity
NilIdentity ==
    [kind |-> "nil", ID |-> 0, Labels |-> {}, cache |-> IdentityCache,
     list |-> <<>>]

\* a nil pointer dereference
Panic ==
    [kind |-> "panic", ID |-> 0, Labels |-> {}, cache |-> IdentityCache,
     list |-> <<>>]

\* identity.NewIdentityFromLabelArray(id, lbls), and the identities of the
\* reserved table and of the local store
NewIdentity(id, lbls) ==
    [kind |-> "identity", ID |-> id, Labels |-> lbls,
     cache |-> IdentityCache, list |-> <<>>]

\* an IdentityCache as a result
CacheResult(c) ==
    [kind |-> "cache", ID |-> 0, Labels |-> {}, cache |-> c, list |-> <<>>]

\* an IdentitiesModel as a result: records of id and labels
ModelResult(l) ==
    [kind |-> "list", ID |-> 0, Labels |-> {}, cache |-> IdentityCache,
     list |-> l]

\* identity.GetModel()
GetModel(id, lbls) == [ID |-> id, Labels |-> lbls]

\* var unknownIdentity
unknownIdentity == NewIdentity(IdentityUnknown, {"reserved:unknown"})

\* a call: the operation, its argument, and the order in which the
\* allocator's cache is visited where the operation enumerates it
NoCall == [op |-> "none", id |-> 0, lbls |-> {}, order |-> <<>>]

\* the manager while the watcher is looked at: set up, with empty stores
ManagerAtRest ==
    /\ allocNil = FALSE
    /\ allocCache = IdentityCache
    /\ allocFails = FALSE
    /\ localNil = FALSE
    /\ localCache = IdentityCache
    /\ call = NoCall
    /\ result = NoResult
    /\ response = "none"

\* no two ids of a store have the same labels: the allocator gives a key
\* one id, and the local store is indexed by labels
UniqueLabels(m) ==
    \A i, j \in DOMAIN m : (i # j) => (m[i] # m[j] \/ m[i].kind # "GlobalIdentity")

UniqueLocalLabels(m) ==
    \A i, j \in DOMAIN m : (i # j) => (m[i] # m[j])

\* the partial maps from the ids in S to the values in V
PartialMaps(S, V) ==
    UNION {[D -> V] : D \in SUBSET S}

Init ==
    /\ WatcherInit
    /\ ManagerAtRest

(***************************************************************************)
(* The collaborators of the read path, by the interface the manager uses.  *)
(***************************************************************************)
\* m.IdentityAllocator.ForeachCache(cb): the entries the callback is
\* called with
ForeachCache == {[id |-> i, val |-> allocCache[i]] : i \in DOMAIN allocCache}

\* m.IdentityAllocator.Get(ctx, GlobalIdentity{lbls}): the id of the key,
\* NoID when the key has none
AllocatorGet(lbls) ==
    LET hits == {i \in DOMAIN allocCache : allocCache[i] = GlobalIdentity(lbls)}
    IN  [err |-> allocFails,
         id |-> IF allocFails \/ hits = {} THEN NoID ELSE CHOOSE i \in hits : TRUE]

\* m.IdentityAllocator.GetByID(id): the key of the id, nil when there is
\* none
AllocatorGetByID(id) ==
    [err |-> allocFails,
     key |-> IF ~allocFails /\ id \in DOMAIN allocCache
             THEN allocCache[id] ELSE NilKey]

\* identity.LookupReservedIdentityByLabels(lbls)
LookupReservedIdentityByLabels(lbls) ==
    LET hits == {i \in DOMAIN ReservedIdentityCache :
                    ReservedIdentityCache[i] = lbls}
    IN  IF hits = {} THEN NilIdentity
        ELSE LET i == CHOOSE i \in hits : TRUE
             IN  NewIdentity(i, ReservedIdentityCache[i])

\* identity.LookupReservedIdentity(id)
LookupReservedIdentity(id) ==
    IF id \in DOMAIN ReservedIdentityCache
    THEN NewIdentity(id, ReservedIdentityCache[id])
    ELSE NilIdentity

\* m.localIdentities.lookup(lbls), of a local store that is not nil
localLookup(lbls) ==
    LET hits == {i \in DOMAIN localCache : localCache[i] = lbls}
    IN  IF hits = {} THEN NilIdentity
        ELSE NewIdentity(CHOOSE i \in hits : TRUE, lbls)

\* m.localIdentities.lookupByID(id), of a local store that is not nil
localLookupByID(id) ==
    IF id \in DOMAIN localCache
    THEN NewIdentity(id, localCache[id])
    ELSE NilIdentity

\* later[k] where later has k, earlier[k] elsewhere: the effect of
\* cache[key] = ... over the entries of later on a map that holds earlier
Overlay(earlier, later) ==
    [k \in (DOMAIN earlier) \cup (DOMAIN later) |->
        IF k \in DOMAIN later THEN later[k] ELSE earlier[k]]

\* the sequences that enumerate the set S once each
Orders(S) ==
    {o \in [1..Cardinality(S) -> S] : \A x \in S : \E i \in DOMAIN o : o[i] = x}

(***************************************************************************)
(* The operations of the read path.                                        *)
(***************************************************************************)
\* the callback of GetIdentityCache with a return that ends the enumeration
\* at the first entry it does not recognize
RECURSIVE cacheVisit_abort(_, _)
cacheVisit_abort(oa, cache) ==
    IF oa = <<>>
    THEN cache
    ELSE LET id == Head(oa)
             val == allocCache[id]
         IN  IF val # NilKey /\ val.kind = "GlobalIdentity"
             THEN cacheVisit_abort(Tail(oa), MapSet(cache, id, val.LabelArray))
             ELSE cache

\* m.IdentityAllocator.ForeachCache(func(id, val) {...}) of GetIdentityCache:
\* the callback is applied to the entries of the allocator's cache one after
\* the other, in the order oa, on the map cache
RECURSIVE cacheVisit(_, _)
cacheVisit(oa, cache) ==
    IF oa = <<>>
    THEN cache
    ELSE LET id == Head(oa)
             val == allocCache[id]
         IN  cacheVisit(Tail(oa),
                        IF val # NilKey
                        THEN IF val.kind = "GlobalIdentity"
                             THEN MapSet(cache, id, val.LabelArray)
                             ELSE cache
                        ELSE cache)

\* GetIdentityCache with the reserved and local loops inside the nil check
\* of the allocator
GetIdentityCache_allocatorOnly(oa) ==
    IF allocNil
    THEN CacheResult(IdentityCache)
    ELSE CacheResult(Overlay(Overlay(cacheVisit(oa, IdentityCache),
                                     ReservedIdentityCache),
                             localCache))

\* GetIdentityCache with the reserved loop after the local loop
GetIdentityCache_reservedLast(oa) ==
    CacheResult(Overlay(Overlay(cacheVisit(oa, IdentityCache), localCache),
                        ReservedIdentityCache))

\* GetIdentityCache, the allocator's cache being visited in the order oa
GetIdentityCache(oa) ==
    LET fromAllocator ==
            IF ~allocNil
            THEN cacheVisit(oa, IdentityCache)
            ELSE IdentityCache
        withReserved == Overlay(fromAllocator, ReservedIdentityCache)
        withLocal ==
            IF ~localNil
            THEN Overlay(withReserved, localCache)
            ELSE withReserved
    IN  CacheResult(withLocal)

\* the ids of the allocator's cache GetIdentities appends a record for
GlobalIdentityIDs ==
    {e.id : e \in {x \in ForeachCache : x.val.kind = "GlobalIdentity"}}

\* GetIdentities, the allocator's cache being visited in the order oa and
\* the local identities ranged over in the order ol; the reserved table has
\* one entry. A call through the nil m.IdentityAllocator or the nil
\* m.localIdentities is a nil dereference.
GetIdentities(oa, ol) ==
    IF allocNil
    THEN Panic
    ELSE IF localNil
    THEN Panic
    ELSE ModelResult(
            [i \in 1..Len(oa) |-> GetModel(oa[i], allocCache[oa[i]].LabelArray)]
            \o [i \in 1..1 |-> GetModel(1, ReservedIdentityCache[1])]
            \o [i \in 1..Len(ol) |-> GetModel(ol[i], localCache[ol[i]])])

\* LookupIdentity without the check of the id against idpool.NoID
LookupIdentity_noNoIDCheck(lbls) ==
    IF LookupReservedIdentityByLabels(lbls) # NilIdentity
    THEN LookupReservedIdentityByLabels(lbls)
    ELSE IF localNil
    THEN Panic
    ELSE IF localLookup(lbls) # NilIdentity
    THEN localLookup(lbls)
    ELSE IF allocNil
    THEN NilIdentity
    ELSE LET r == AllocatorGet(lbls) IN
         IF r.err
         THEN NilIdentity
         ELSE NewIdentity(r.id, lbls)

\* LookupIdentity
LookupIdentity(lbls) ==
    IF LookupReservedIdentityByLabels(lbls) # NilIdentity
    THEN LookupReservedIdentityByLabels(lbls)
    ELSE IF localNil
    THEN Panic
    ELSE IF localLookup(lbls) # NilIdentity
    THEN localLookup(lbls)
    ELSE IF allocNil
    THEN NilIdentity
    ELSE LET r == AllocatorGet(lbls) IN
         IF r.err
         THEN NilIdentity
         ELSE IF r.id = NoID
         THEN NilIdentity
         ELSE NewIdentity(r.id, lbls)

\* LookupIdentityByID without the check of the id against IdentityUnknown
LookupIdentityByID_noSentinel(id) ==
    IF LookupReservedIdentity(id) # NilIdentity
    THEN LookupReservedIdentity(id)
    ELSE IF allocNil
    THEN NilIdentity
    ELSE IF localNil
    THEN Panic
    ELSE IF localLookupByID(id) # NilIdentity
    THEN localLookupByID(id)
    ELSE LET r == AllocatorGetByID(id) IN
         IF r.err
         THEN NilIdentity
         ELSE IF r.key.kind = "GlobalIdentity"
         THEN NewIdentity(id, r.key.LabelArray)
         ELSE NilIdentity

\* LookupIdentityByID without the type assertion on the allocator's key
LookupIdentityByID_anyKey(id) ==
    IF id = IdentityUnknown
    THEN unknownIdentity
    ELSE IF LookupReservedIdentity(id) # NilIdentity
    THEN LookupReservedIdentity(id)
    ELSE IF allocNil
    THEN NilIdentity
    ELSE IF localNil
    THEN Panic
    ELSE IF localLookupByID(id) # NilIdentity
    THEN localLookupByID(id)
    ELSE LET r == AllocatorGetByID(id) IN
         IF r.err
         THEN NilIdentity
         ELSE NewIdentity(id, r.key.LabelArray)

\* LookupIdentityByID
LookupIdentityByID(id) ==
    IF id = IdentityUnknown
    THEN unknownIdentity
    ELSE IF LookupReservedIdentity(id) # NilIdentity
    THEN LookupReservedIdentity(id)
    ELSE IF allocNil
    THEN NilIdentity
    ELSE IF localNil
    THEN Panic
    ELSE IF localLookupByID(id) # NilIdentity
    THEN localLookupByID(id)
    ELSE LET r == AllocatorGetByID(id) IN
         IF r.err
         THEN NilIdentity
         ELSE IF r.key.kind = "GlobalIdentity"
         THEN NewIdentity(id, r.key.LabelArray)
         ELSE NilIdentity

(***************************************************************************)
(* ReadSpec: a manager in any configuration of its three sources, on which *)
(* the read operations are called. The watcher is not running.             *)
(***************************************************************************)
ReadInit ==
    /\ WatcherInit
    /\ allocNil \in BOOLEAN
    /\ allocFails \in BOOLEAN
    /\ localNil \in BOOLEAN
    /\ allocCache \in {m \in PartialMaps(AllocIDs, AllocatorKeys) :
                            UniqueLabels(m)}
    /\ localCache \in {m \in PartialMaps(LocalIDs, ReadLabels) :
                            UniqueLocalLabels(m)}
    /\ allocNil => (allocCache = IdentityCache /\ ~allocFails)
    /\ localNil => (localCache = IdentityCache)
    /\ call = NoCall
    /\ result = NoResult
    /\ response = "none"

watcherVars == <<events, closed, stopChan, pc, added, deleted,
                 ownerCache, refCache, closedSeen,
                 sentCount, recvLog, deliveredLog, iterEvents, queuedAtFirst,
                 callbackCount, ignored, panicked, stopLog, closeQueue>>

\* a caller inside the agent takes the identity cache
CallGetIdentityCache ==
    /\ \E oa \in Orders(DOMAIN allocCache) :
        /\ call' = [op |-> "GetIdentityCache", id |-> 0, lbls |-> {},
                    order |-> oa]
        /\ result' = GetIdentityCache(oa)
    /\ response' = "none"
    /\ UNCHANGED <<watcherVars, mgrVars>>

\* the responder of a handler for the value the manager returned: a nil
\* dereference in the manager ends the request without one
Responder(res, ifNil) ==
    IF res.kind = "panic"
    THEN "panic"
    ELSE IF res = NilIdentity
    THEN ifNil
    ELSE "OK"

\* getIdentity.Handle with params.Labels nil: GET /identity lists
getIdentityHandleList ==
    /\ \E oa \in Orders(GlobalIdentityIDs) : \E ol \in Orders(DOMAIN localCache) :
        /\ result' = GetIdentities(oa, ol)
        /\ response' = Responder(GetIdentities(oa, ol), "OK")
    /\ call' = [op |-> "GetIdentities", id |-> 0, lbls |-> {},
                order |-> <<>>]
    /\ UNCHANGED <<watcherVars, mgrVars>>

\* getIdentity.Handle with params.Labels set
getIdentityHandleLabels ==
    /\ \E lbls \in ReadLabels :
        /\ call' = [op |-> "LookupIdentity", id |-> 0, lbls |-> lbls,
                    order |-> <<>>]
        /\ result' = LookupIdentity(lbls)
        /\ response' = Responder(LookupIdentity(lbls), "NotFound")
    /\ UNCHANGED <<watcherVars, mgrVars>>

\* getIdentityID.Handle with a params.ID that does not parse
getIdentityIDHandleBadRequest ==
    /\ call' = NoCall
    /\ result' = NoResult
    /\ response' = "BadRequest"
    /\ UNCHANGED <<watcherVars, mgrVars>>

\* getIdentityID.Handle with a params.ID that parses to id
getIdentityIDHandle ==
    /\ \E id \in LookupIDs :
        /\ call' = [op |-> "LookupIdentityByID", id |-> id, lbls |-> {},
                    order |-> <<>>]
        /\ result' = LookupIdentityByID(id)
        /\ response' = Responder(LookupIdentityByID(id), "NotFound")
    /\ UNCHANGED <<watcherVars, mgrVars>>

ReadNext ==
    \/ CallGetIdentityCache
    \/ getIdentityHandleList
    \/ getIdentityHandleLabels
    \/ getIdentityIDHandleBadRequest
    \/ getIdentityIDHandle

ReadSpec == ReadInit /\ [][ReadNext]_vars

(***************************************************************************)
(* The producer side of the event channel, and stop().                     *)
(***************************************************************************)
\* events <- e : a send on the buffered channel (blocks while it is full;
\* a send on a closed channel is not made)
Send(e) ==
    /\ ~closed
    /\ Len(events) < ChanCap
    /\ events' = Append(events, e)
    /\ UNCHANGED <<closed, stopChan, pc, added, deleted>>

\* close(events) by the producer
Close ==
    /\ ~closed
    /\ closed' = TRUE
    /\ UNCHANGED <<events, stopChan, pc, added, deleted>>

\* the process runs, and the step is not a call of stop()
Alive ==
    /\ ~panicked
    /\ UNCHANGED <<panicked, stopLog>>

\* the process runs, and the step is neither a call of stop() nor the
\* closure of the event channel
Quiet ==
    /\ Alive
    /\ UNCHANGED closeQueue

\* stop() that looks whether the channel is closed before closing it
stop_idempotent ==
    /\ stopChan' = TRUE
    /\ UNCHANGED <<events, closed, pc, added, deleted, panicked>>

\* identityWatcher.stop: close(w.stopChan); the close of a closed channel
\* is a run-time panic
stop ==
    /\ IF ~stopChan
       THEN stopChan' = TRUE /\ UNCHANGED panicked
       ELSE panicked' = TRUE /\ UNCHANGED stopChan
    /\ UNCHANGED <<events, closed, pc, added, deleted>>

(***************************************************************************)
(* The goroutine of identityWatcher.watch. pc is "First" at the blocking   *)
(* select, "More" at the non-blocking select, "Callback" while             *)
(* w.owner.UpdateIdentities(added, deleted) runs, "Done" after return.     *)
(***************************************************************************)
\* variant: break First is outside the test of collectEvent's result
watchFirstEvent_breakAlways ==
    /\ pc = "First"
    /\ events # <<>>
    /\ LET r == switchCollect(Head(events), added, deleted) IN
        /\ added' = r.added
        /\ deleted' = r.deleted
    /\ pc' = "More"
    /\ events' = Tail(events)
    /\ UNCHANGED <<closed, stopChan>>

\* First: case event, ok := <-events with ok true
watchFirstEvent ==
    /\ pc = "First"
    /\ events # <<>>
    /\ LET r == switchCollect(Head(events), added, deleted) IN
        /\ added' = r.added
        /\ deleted' = r.deleted
        /\ pc' = IF r.ok THEN "More" ELSE "First"
    /\ events' = Tail(events)
    /\ UNCHANGED <<closed, stopChan>>

\* variant: the closure is seen before the events still buffered
watchFirstClosed_dropsQueued ==
    /\ pc = "First"
    /\ closed
    /\ pc' = "Done"
    /\ UNCHANGED <<events, closed, stopChan, added, deleted>>

\* First: case event, ok := <-events with ok false: return
watchFirstClosed ==
    /\ pc = "First"
    /\ events = <<>>
    /\ closed
    /\ pc' = "Done"
    /\ UNCHANGED <<events, closed, stopChan, added, deleted>>

\* variant: the stop case leaves the First loop instead of returning
watchFirstStop_breakFirst ==
    /\ pc = "First"
    /\ stopChan
    /\ pc' = "More"
    /\ UNCHANGED <<events, closed, stopChan, added, deleted>>

\* variant: the stop case leaves only the select, and the loop selects again
watchFirstStop_breakSelect ==
    /\ pc = "First"
    /\ stopChan
    /\ pc' = "First"
    /\ UNCHANGED <<events, closed, stopChan, added, deleted>>

\* First: case <-w.stopChan: return
watchFirstStop ==
    /\ pc = "First"
    /\ stopChan
    /\ pc' = "Done"
    /\ UNCHANGED <<events, closed, stopChan, added, deleted>>

\* variant: the callback is started with go, and the More loop receives
\* beside it
watchMoreEvent_duringCallback ==
    /\ pc \in {"More", "Callback"}
    /\ events # <<>>
    /\ LET r == switchCollect(Head(events), added, deleted) IN
        /\ added' = r.added
        /\ deleted' = r.deleted
    /\ events' = Tail(events)
    /\ pc' = "More"
    /\ UNCHANGED <<closed, stopChan>>

\* More: case event, ok := <-events with ok true
watchMoreEvent ==
    /\ pc = "More"
    /\ events # <<>>
    /\ LET r == switchCollect(Head(events), added, deleted) IN
        /\ added' = r.added
        /\ deleted' = r.deleted
    /\ events' = Tail(events)
    /\ pc' = "More"
    /\ UNCHANGED <<closed, stopChan>>

\* variant: the closed case leaves only the select, and the loop selects
\* again
watchMoreClosed_breakSelect ==
    /\ pc = "More"
    /\ events = <<>>
    /\ closed
    /\ pc' = "More"
    /\ UNCHANGED <<events, closed, stopChan, added, deleted>>

\* More: case event, ok := <-events with ok false: break More, and the
\* call of w.owner.UpdateIdentities(added, deleted) begins
watchMoreClosed ==
    /\ pc = "More"
    /\ events = <<>>
    /\ closed
    /\ pc' = "Callback"
    /\ UNCHANGED <<events, closed, stopChan, added, deleted>>

\* variant: the default case is taken although an event is available
watchMoreDefault_eager ==
    /\ pc = "More"
    /\ ~(events = <<>> /\ closed)
    /\ pc' = "Callback"
    /\ UNCHANGED <<events, closed, stopChan, added, deleted>>

\* variant: the select of the More loop has no default case and waits for
\* the next event
watchMoreDefault_blocking ==
    /\ pc = "More"
    /\ events = <<>>
    /\ ~closed
    /\ pc' = "More"
    /\ UNCHANGED <<events, closed, stopChan, added, deleted>>

\* variant: nothing is available and the More loop looks at the stop
\* channel, as the First loop does, and returns
watchMoreDefault_stopAware ==
    /\ pc = "More"
    /\ events = <<>>
    /\ ~closed
    /\ pc' = IF stopChan THEN "Done" ELSE "Callback"
    /\ UNCHANGED <<events, closed, stopChan, added, deleted>>

\* More: default: break More, and the call of
\* w.owner.UpdateIdentities(added, deleted) begins
watchMoreDefault ==
    /\ pc = "More"
    /\ events = <<>>
    /\ ~closed
    /\ pc' = "Callback"
    /\ UNCHANGED <<events, closed, stopChan, added, deleted>>

\* variant: added and deleted are made once, outside the outer loop
watchNextIteration_stale ==
    /\ pc = "Callback"
    /\ pc' = "First"
    /\ UNCHANGED <<events, closed, stopChan, added, deleted>>

\* UpdateIdentities returns; the outer loop starts its next iteration with
\* added := IdentityCache{} and deleted := IdentityCache{}
watchNextIteration ==
    /\ pc = "Callback"
    /\ pc' = "First"
    /\ added' = IdentityCache
    /\ deleted' = IdentityCache
    /\ UNCHANGED <<events, closed, stopChan>>

(***************************************************************************)
(* History of a behaviour: what was sent, collected and delivered, and the *)
(* two owners the batches are compared on. None of it is read by the       *)
(* actions above.                                                          *)
(***************************************************************************)
\* a recognized Create, or a Delete
Applicable(e) ==
    \/ e.Typ = EventTypeDelete
    \/ e.Typ = EventTypeCreate /\ e.Key.kind = "GlobalIdentity"

\* an owner applying one event: a Create sets the key, a Delete removes it
ApplyEvent(m, e) ==
    IF e.Typ = EventTypeCreate
    THEN MapSet(m, e.ID, e.Key.LabelArray)
    ELSE MapDelete(m, e.ID)

\* an owner applying one batch: remove every key of d, then set every key
\* of a to its labels
ApplyBatch(m, a, d) ==
    [k \in ((DOMAIN m) \ (DOMAIN d)) \cup (DOMAIN a) |->
        IF k \in DOMAIN a THEN a[k] ELSE m[k]]

SeqNumbers(s) == [i \in 1..Len(s) |-> s[i].seq]

Range(s) == {s[i] : i \in 1..Len(s)}

HistSend ==
    /\ sentCount' = sentCount + 1
    /\ UNCHANGED <<ownerCache, refCache, closedSeen, recvLog, deliveredLog,
                   iterEvents, queuedAtFirst, callbackCount>>

HistIdle ==
    UNCHANGED histVars

\* the watcher takes Head(events) off the channel
HistReceive(first) ==
    LET e == Head(events) IN
    /\ IF Applicable(e)
       THEN /\ recvLog' = Append(recvLog, e.seq)
            /\ iterEvents' = Append(iterEvents, e)
            /\ refCache' = ApplyEvent(refCache, e)
            /\ queuedAtFirst' =
                 IF first
                 THEN {q.seq : q \in {x \in Range(events) : Applicable(x)}}
                 ELSE queuedAtFirst
       ELSE UNCHANGED <<recvLog, iterEvents, refCache, queuedAtFirst>>
    /\ UNCHANGED <<ownerCache, closedSeen, sentCount, deliveredLog,
                   callbackCount>>

\* w.owner.UpdateIdentities(added, deleted) is called
HistCall(foundClosed) ==
    /\ ownerCache' = ApplyBatch(ownerCache, added, deleted)
    /\ deliveredLog' = deliveredLog \o SeqNumbers(iterEvents)
    /\ callbackCount' = callbackCount + 1
    /\ closedSeen' = (closedSeen \/ foundClosed)
    /\ UNCHANGED <<refCache, sentCount, recvLog, iterEvents, queuedAtFirst>>

\* only the fact that the channel was found closed in More is recorded
HistFoundClosed ==
    /\ closedSeen' = TRUE
    /\ UNCHANGED <<ownerCache, refCache, sentCount, recvLog, deliveredLog,
                   iterEvents, queuedAtFirst, callbackCount>>

\* the watcher takes Head(events) off the channel: an event that is not
\* collected is recorded with its type, the loop that received it and
\* whether its id was in added or deleted then
HistIgnored ==
    LET e == Head(events) IN
    ignored' = IF Applicable(e)
               THEN ignored
               ELSE ignored \cup
                    {[Typ |-> e.Typ, at |-> pc,
                      held |-> e.ID \in (DOMAIN added) \cup (DOMAIN deleted)]}

\* an iteration of the outer loop begins
HistNextIteration ==
    /\ iterEvents' = <<>>
    /\ queuedAtFirst' = {}
    /\ UNCHANGED <<ownerCache, refCache, closedSeen, sentCount, recvLog,
                   deliveredLog, callbackCount>>

(***************************************************************************)
(* Spec: the producer sends at most MaxEvents events, and the history is   *)
(* recorded.                                                               *)
(***************************************************************************)
SendEvent ==
    /\ sentCount < MaxEvents
    /\ \E e \in EventsAt(sentCount + 1) : Send(e)
    /\ HistSend
    /\ UNCHANGED <<ignored, readVars>> /\ Quiet

CloseEvents ==
    /\ Close
    /\ HistIdle
    /\ closeQueue' = {e.seq : e \in {x \in Range(events) : Applicable(x)}}
    /\ UNCHANGED <<ignored, readVars>>
    /\ Alive

Stop ==
    /\ ~panicked
    /\ stop
    /\ stopLog' = Append(stopLog, pc)
    /\ UNCHANGED closeQueue
    /\ HistIdle
    /\ UNCHANGED <<ignored, readVars>>

FirstEvent ==
    /\ watchFirstEvent
    /\ HistReceive(TRUE)
    /\ HistIgnored
    /\ UNCHANGED readVars /\ Quiet

FirstClosed ==
    watchFirstClosed /\ HistIdle /\ UNCHANGED <<ignored, readVars>> /\ Quiet

FirstStop ==
    watchFirstStop /\ HistIdle /\ UNCHANGED <<ignored, readVars>> /\ Quiet

MoreEvent ==
    /\ watchMoreEvent
    /\ HistReceive(FALSE)
    /\ HistIgnored
    /\ UNCHANGED readVars /\ Quiet

MoreClosed ==
    watchMoreClosed /\ HistCall(TRUE) /\ UNCHANGED <<ignored, readVars>> /\ Quiet

MoreDefault ==
    watchMoreDefault /\ HistCall(FALSE) /\ UNCHANGED <<ignored, readVars>> /\ Quiet

NextIteration ==
    /\ watchNextIteration
    /\ HistNextIteration
    /\ UNCHANGED <<ignored, readVars>> /\ Quiet

Watcher ==
    \/ FirstEvent
    \/ FirstClosed
    \/ FirstStop
    \/ MoreEvent
    \/ MoreClosed
    \/ MoreDefault
    \/ NextIteration

Next ==
    \/ SendEvent
    \/ CloseEvents
    \/ Stop
    \/ FirstEvent
    \/ FirstClosed
    \/ FirstStop
    \/ MoreEvent
    \/ MoreClosed
    \/ MoreDefault
    \/ NextIteration

Spec == Init /\ [][Next]_vars

(***************************************************************************)
(* LiveSpec: the producer may send for ever (events for one identity), of  *)
(* the history only closedSeen is recorded, and the watcher is scheduled   *)
(* fairly: it takes a step when one stays possible, a callback that was    *)
(* invoked returns, and the select of the First loop, which chooses among  *)
(* its ready cases at random, does not pass over the stop case for ever.   *)
(***************************************************************************)
LiveEvents == {e \in EventsAt(0) : e.ID = 7}

LiveSend ==
    /\ \E e \in LiveEvents : Send(e)
    /\ HistIdle
    /\ UNCHANGED <<ignored, readVars>> /\ Quiet

LiveFirstEvent ==
    watchFirstEvent /\ HistIdle /\ UNCHANGED <<ignored, readVars>> /\ Quiet

LiveMoreEvent ==
    watchMoreEvent /\ HistIdle /\ UNCHANGED <<ignored, readVars>> /\ Quiet

LiveMoreClosed ==
    watchMoreClosed /\ HistFoundClosed /\ UNCHANGED <<ignored, readVars>> /\ Quiet

LiveMoreDefault ==
    watchMoreDefault /\ HistIdle /\ UNCHANGED <<ignored, readVars>> /\ Quiet

LiveNextIteration ==
    watchNextIteration /\ HistIdle /\ UNCHANGED <<ignored, readVars>> /\ Quiet

\* stop() as its callers are to call it: once
LiveStop == ~stopChan /\ Stop

LiveWatcher ==
    \/ LiveFirstEvent
    \/ FirstClosed
    \/ FirstStop
    \/ LiveMoreEvent
    \/ LiveMoreClosed
    \/ LiveMoreDefault
    \/ LiveNextIteration

LiveNext ==
    \/ LiveSend
    \/ CloseEvents
    \/ LiveStop
    \/ LiveFirstEvent
    \/ FirstClosed
    \/ FirstStop
    \/ LiveMoreEvent
    \/ LiveMoreClosed
    \/ LiveMoreDefault
    \/ LiveNextIteration

LiveSpec ==
    /\ Init
    /\ [][LiveNext]_vars
    /\ WF_vars(LiveWatcher)
    /\ SF_vars(FirstStop)

(***************************************************************************)
(* Definitions the claims are stated with.                                 *)
(***************************************************************************)
\* the identities that have an event among the collected events s
IdsOf(s) == {s[i].ID : i \in 1..Len(s)}

\* the position in s of the last event for id, 0 when there is none
LastFor(s, id) ==
    IF id \in IdsOf(s)
    THEN CHOOSE i \in 1..Len(s) :
            /\ s[i].ID = id
            /\ \A j \in (i + 1)..Len(s) : s[j].ID # id
    ELSE 0

IsPrefix(s, t) ==
    /\ Len(s) <= Len(t)
    /\ SubSeq(t, 1, Len(s)) = s

StrictlyIncreasing(s) ==
    \A i \in 1..Len(s) : \A j \in (i + 1)..Len(s) : s[i] < s[j]

\* collectEvent applied to the events s in order, from the maps in r
RECURSIVE CollectAll(_, _)
CollectAll(s, r) ==
    IF s = <<>>
    THEN r
    ELSE CollectAll(Tail(s), collectEvent(Head(s), r.added, r.deleted))

\* the two maps made at the start of an iteration
FreshBatch == [ok |-> TRUE, added |-> IdentityCache, deleted |-> IdentityCache]

\* an event without its position in the stream
Plain(e) == [Typ |-> e.Typ, ID |-> e.ID, Key |-> e.Key]

(***************************************************************************)
(* C1. Batch disjointness: whenever UpdateIdentities(added, deleted) is    *)
(* invoked, no numeric identity is a key of both added and deleted,        *)
(* whatever events (recognized or not) were received in the iteration.     *)
(***************************************************************************)
C1_BatchDisjoint ==
    pc = "Callback" => (DOMAIN added) \cap (DOMAIN deleted) = {}

\* a delivered batch with both sets non-empty, built from a Delete and a
\* later Create of one identity
C1_Witness ==
    /\ pc = "Callback"
    /\ DOMAIN added # {}
    /\ DOMAIN deleted # {}
    /\ \E i \in 1..Len(iterEvents) : \E j \in (i + 1)..Len(iterEvents) :
        /\ iterEvents[i].ID = iterEvents[j].ID
        /\ iterEvents[i].Typ = EventTypeDelete
        /\ iterEvents[j].Typ = EventTypeCreate

(***************************************************************************)
(* C2. Cumulative application: once every collected event has been         *)
(* delivered (the watcher is not between a collection and the flush), an   *)
(* owner that applied each delivered batch in delivery order holds the     *)
(* same identity-to-labels map as an owner that applied each collected     *)
(* event one at a time in received order, however the stream was split     *)
(* into batches.                                                           *)
(***************************************************************************)
C2_CumulativeEquivalence ==
    pc # "More" => ownerCache = refCache

\* three events delivered in two batches, leaving a non-empty map
C2_Witness ==
    /\ pc = "Done"
    /\ callbackCount = 2
    /\ Len(deliveredLog) = 3
    /\ DOMAIN ownerCache # {}

(***************************************************************************)
(* C3. No collected event is dropped, duplicated or reordered across       *)
(* batches: the batch handed to UpdateIdentities has exactly the keys of   *)
(* the events collected in its own iteration and is what collectEvent      *)
(* makes of those events starting from empty maps; the events of delivered *)
(* batches, in delivery order, are a prefix of the collected events in     *)
(* receive order, the rest being the events of the current iteration;      *)
(* at the blocking select and after termination nothing collected is       *)
(* undelivered; and the collected events followed by the events still      *)
(* queued in the channel are in the order they were sent.                  *)
(***************************************************************************)
C3_NoEventLost ==
    /\ pc = "Callback" =>
        /\ (DOMAIN added) \cup (DOMAIN deleted) = IdsOf(iterEvents)
        /\ LET r == CollectAll(iterEvents, FreshBatch) IN
            /\ added = r.added
            /\ deleted = r.deleted
    /\ IsPrefix(deliveredLog, recvLog)
    /\ recvLog = deliveredLog \o
                    (IF pc = "Callback" THEN <<>> ELSE SeqNumbers(iterEvents))
    /\ pc \in {"First", "Done"} =>
        /\ iterEvents = <<>>
        /\ deliveredLog = recvLog
    /\ StrictlyIncreasing(recvLog \o
            SeqNumbers(SelectSeq(events, LAMBDA e : Applicable(e))))

\* the second callback is running, two events are delivered and a third
\* one waits in the channel
C3_Witness ==
    /\ pc = "Callback"
    /\ callbackCount = 2
    /\ Len(deliveredLog) = 2
    /\ \E i \in 1..Len(events) : Applicable(events[i])

(***************************************************************************)
(* C4. Within one batch, a recognized Create(id, L) followed later by      *)
(* Delete(id), with no later event for id, leaves id in deleted with the   *)
(* empty label set and absent from added.                                  *)
(***************************************************************************)
C4_CreateThenDelete ==
    \A id \in IDs :
        LET n == LastFor(iterEvents, id) IN
        ( /\ n > 0
          /\ iterEvents[n].Typ = EventTypeDelete
          /\ \E i \in 1..(n - 1) :
                /\ iterEvents[i].ID = id
                /\ iterEvents[i].Typ = EventTypeCreate )
        => /\ id \in DOMAIN deleted
           /\ deleted[id] = EmptyLabelArray
           /\ id \notin DOMAIN added

\* a batch is being delivered whose events are Create(7, L), Delete(7)
C4_Witness ==
    /\ pc = "Callback"
    /\ Len(iterEvents) = 2
    /\ iterEvents[1].Typ = EventTypeCreate
    /\ iterEvents[2].Typ = EventTypeDelete
    /\ iterEvents[1].ID = 7
    /\ iterEvents[2].ID = 7

(***************************************************************************)
(* C5. Within one batch, Delete(id) followed later by a recognized         *)
(* Create(id, L), with no later event for id, leaves id in added with      *)
(* exactly the labels L and absent from deleted.                           *)
(***************************************************************************)
C5_DeleteThenCreate ==
    \A id \in IDs :
        LET n == LastFor(iterEvents, id) IN
        ( /\ n > 0
          /\ iterEvents[n].Typ = EventTypeCreate
          /\ \E i \in 1..(n - 1) :
                /\ iterEvents[i].ID = id
                /\ iterEvents[i].Typ = EventTypeDelete )
        => /\ id \in DOMAIN added
           /\ added[id] = iterEvents[n].Key.LabelArray
           /\ id \notin DOMAIN deleted

\* a batch is being delivered whose events are Delete(8), Create(8, L)
C5_Witness ==
    /\ pc = "Callback"
    /\ Len(iterEvents) = 2
    /\ iterEvents[1].Typ = EventTypeDelete
    /\ iterEvents[2].Typ = EventTypeCreate
    /\ iterEvents[1].ID = 8
    /\ iterEvents[2].ID = 8

(***************************************************************************)
(* C6. A Delete(id) is always recorded: when the last event collected for  *)
(* id in the iteration is a Delete, id is in deleted, whether or not id    *)
(* was in added and whether or not a Create(id) was ever collected.        *)
(***************************************************************************)
C6_DeleteRecorded ==
    \A id \in IDs :
        LET n == LastFor(iterEvents, id) IN
        (n > 0 /\ iterEvents[n].Typ = EventTypeDelete)
        => id \in DOMAIN deleted

\* the only event ever collected is a Delete, and its batch is delivered
C6_Witness ==
    /\ pc = "Callback"
    /\ Len(recvLog) = 1
    /\ Len(iterEvents) = 1
    /\ iterEvents[1].Typ = EventTypeDelete
    /\ iterEvents[1].ID \in DOMAIN deleted

(***************************************************************************)
(* C7. Coalescing: every Create/Delete event that was queued in the        *)
(* channel when the watcher collected the first event of an iteration is   *)
(* delivered by the one UpdateIdentities call of that iteration; for       *)
(* Create(7, app=foo), Create(8, app=bar), Delete(7) the call gets         *)
(* added = {8: app=bar} and deleted = {7: {}}.                             *)
(***************************************************************************)
C7_Coalescing ==
    pc = "Callback" =>
        /\ queuedAtFirst \subseteq Range(SeqNumbers(iterEvents))
        /\ IdsOf(iterEvents) \subseteq (DOMAIN added) \cup (DOMAIN deleted)
        /\ ( /\ Len(iterEvents) = 3
             /\ Plain(iterEvents[1]) =
                  Plain(AllocatorEvent(EventTypeCreate, 7,
                                       GlobalIdentity({"app=foo"}), 0))
             /\ Plain(iterEvents[2]) =
                  Plain(AllocatorEvent(EventTypeCreate, 8,
                                       GlobalIdentity({"app=bar"}), 0))
             /\ Plain(iterEvents[3]) =
                  Plain(AllocatorEvent(EventTypeDelete, 7, NilKey, 0)) )
           => /\ added = MapSet(IdentityCache, 8, {"app=bar"})
              /\ deleted = MapSet(IdentityCache, 7, EmptyLabelArray)

\* the three events of the example were all queued at the first collection
\* and are delivered by the first call
C7_Witness ==
    /\ pc = "Callback"
    /\ callbackCount = 1
    /\ queuedAtFirst = {1, 2, 3}
    /\ Len(iterEvents) = 3
    /\ iterEvents[1].ID = 7
    /\ iterEvents[1].Typ = EventTypeCreate
    /\ iterEvents[1].Key = GlobalIdentity({"app=foo"})
    /\ iterEvents[2].ID = 8
    /\ iterEvents[2].Typ = EventTypeCreate
    /\ iterEvents[2].Key = GlobalIdentity({"app=bar"})
    /\ iterEvents[3].ID = 7
    /\ iterEvents[3].Typ = EventTypeDelete

(***************************************************************************)
(* C8. Cancellation at the next Idle. As claimed: once stop() has closed   *)
(* the cancellation channel, a watcher in Idle collects no further event   *)
(* and does not go on to a callback, whether or not events are available.  *)
(***************************************************************************)
C8_StopAtNextIdle ==
    [][(stopChan /\ pc = "First") =>
        /\ pc' \in {"First", "Done"}
        /\ recvLog' = recvLog]_vars

(***************************************************************************)
(* C8, amended. Once stop() has closed the cancellation channel, a watcher *)
(* in Idle that finds no event available terminates, without collecting an *)
(* event and without a callback for that iteration; and whenever the       *)
(* watcher terminates out of Idle it has collected nothing in that         *)
(* iteration and invokes no callback. (When an event is available too, the *)
(* select may take the event.)                                             *)
(***************************************************************************)
C8_StopAtIdle ==
    /\ [][(stopChan /\ pc = "First" /\ events = <<>>) =>
            /\ pc' \in {"First", "Done"}
            /\ UNCHANGED <<added, deleted, recvLog, callbackCount,
                           ownerCache>>]_vars
    /\ [][(pc = "First" /\ pc' = "Done") =>
            /\ added = IdentityCache
            /\ deleted = IdentityCache
            /\ iterEvents = <<>>
            /\ UNCHANGED <<events, added, deleted, recvLog, callbackCount,
                           ownerCache>>]_vars

\* the watcher has terminated on stop() after a delivered batch: the
\* channel is not closed, so it did not terminate on closure
C8_Witness ==
    /\ pc = "Done"
    /\ stopChan
    /\ ~closed
    /\ callbackCount >= 1

(***************************************************************************)
(* C9. Termination after stop(). As claimed: after stop() the watcher      *)
(* eventually terminates, also when the producer keeps sending, and once   *)
(* terminated it never invokes UpdateIdentities again.                     *)
(***************************************************************************)
C9_StopTerminates ==
    /\ stopChan ~> (pc = "Done")
    /\ [][pc = "Done" => pc' = "Done"]_vars

(***************************************************************************)
(* C9, amended. After stop() the watcher eventually terminates, also when  *)
(* the producer keeps sending, provided every Draining phase ends (the     *)
(* non-blocking receive eventually finds no event available); once         *)
(* terminated it stays terminated, so it never invokes UpdateIdentities    *)
(* again.                                                                  *)
(***************************************************************************)
C9_StopTerminatesIfDrained ==
    /\ ([]<>(pc # "More")) => (stopChan ~> (pc = "Done"))
    /\ [][pc = "Done" => pc' = "Done"]_vars

\* the watcher has terminated on stop() while the producer, whose channel
\* is still open, has events queued
C9_Witness ==
    /\ pc = "Done"
    /\ stopChan
    /\ ~closed
    /\ events # <<>>

(***************************************************************************)
(* C10. Upstream closure terminates the watcher. Found closed in Idle: it  *)
(* terminates with no callback for that iteration. Found closed during     *)
(* Draining: the accumulated batch is flushed by one callback, after which *)
(* the watcher only returns to the First loop and terminates there,        *)
(* entering no further Draining or callback; nothing is left to collect;   *)
(* and after closure the watcher does terminate.                           *)
(***************************************************************************)
C10_ClosureTerminates ==
    /\ [][(closed /\ events = <<>> /\ pc = "First") =>
            /\ pc' \in {"First", "Done"}
            /\ UNCHANGED <<added, deleted>>]_vars
    /\ [][(closed /\ events = <<>> /\ pc = "More") =>
            /\ pc' \in {"More", "Callback"}
            /\ UNCHANGED <<added, deleted>>]_vars
    /\ [][(closed /\ events = <<>> /\ pc = "Callback") =>
            pc' \in {"Callback", "First"}]_vars
    /\ [][(closed /\ events = <<>>) => (closed' /\ events' = <<>>)]_vars
    /\ [][pc = "Done" => pc' = "Done"]_vars
    /\ closed ~> (pc = "Done")

\* the channel was found closed during Draining, the batch was flushed and
\* the watcher has terminated without stop()
C10_Witness ==
    /\ pc = "Done"
    /\ closedSeen
    /\ closed
    /\ ~stopChan
    /\ events = <<>>

(***************************************************************************)
(* C11. Liveness of a lone event.                                          *)
(***************************************************************************)
\* the keys of the batch of the current iteration
BatchKeys == (DOMAIN added) \cup (DOMAIN deleted)

\* the watcher takes Head(events) off the channel in this step
Receives ==
    /\ events # <<>>
    /\ events' = Tail(events)

\* the identity of a collected event is in the batch from its collection
\* on, and the batch that is flushed is the batch that was collected
BatchKeepsCollected ==
    /\ [][(pc = "First" /\ pc' = "More") =>
            (Receives /\ Head(events).ID \in BatchKeys')]_vars
    /\ [][(pc = "More" /\ Receives /\ Applicable(Head(events))) =>
            (Head(events).ID \in BatchKeys')]_vars
    /\ [][(pc = "More" /\ pc' = "More") => (BatchKeys \subseteq BatchKeys')]_vars
    /\ [][(pc = "More" /\ pc' # "More") =>
            /\ pc' = "Callback"
            /\ BatchKeys # {}
            /\ UNCHANGED <<added, deleted>>]_vars

(***************************************************************************)
(* C11, as claimed: a watcher that has collected an event and finds no     *)
(* further event available invokes the callback, with a batch that has the *)
(* event's identity, without waiting for another event; and every          *)
(* collected event is eventually delivered, the watcher being scheduled    *)
(* and callbacks returning.                                                *)
(***************************************************************************)
C11_CollectedIsDelivered ==
    /\ BatchKeepsCollected
    /\ (pc = "More" /\ events = <<>>) ~> (pc = "Callback" \/ events # <<>>)
    /\ (pc = "More") ~> (pc = "Callback")

(***************************************************************************)
(* C11, amended: a watcher that has collected an event and finds no        *)
(* further event available invokes the callback, with a batch that has the *)
(* event's identity, without waiting for another event (unless one arrives *)
(* before its non-blocking receive); and every collected event is          *)
(* eventually delivered provided the Draining phases end, that is, the     *)
(* producer does not refill the channel before every non-blocking receive. *)
(***************************************************************************)
C11_LoneEventDelivered ==
    /\ BatchKeepsCollected
    /\ (pc = "More" /\ events = <<>>) ~> (pc = "Callback" \/ events # <<>>)
    /\ ([]<>(pc # "More")) => ((pc = "More") ~> (pc = "Callback"))

\* the callback runs for a lone event: the channel is open and empty and
\* the batch has identity 7
C11_Witness ==
    /\ pc = "Callback"
    /\ events = <<>>
    /\ ~closed
    /\ ~stopChan
    /\ BatchKeys = {7}

(***************************************************************************)
(* The read path.                                                          *)
(***************************************************************************)
Called(op) == call.op = op

\* C12: GetIdentityCache() with no distributed allocator configured
\* completes without error and returns a map whose keys are exactly the
\* keys of the reserved identities and of the node-local identities, each
\* entry carrying the label array its key has in one of the two.
C12_CacheWithoutAllocator ==
    (Called("GetIdentityCache") /\ allocNil) =>
        /\ result.kind = "cache"
        /\ DOMAIN result.cache =
                (DOMAIN ReservedIdentityCache) \cup (DOMAIN localCache)
        /\ \A k \in DOMAIN result.cache :
            \/ k \in DOMAIN localCache /\ result.cache[k] = localCache[k]
            \/ k \in DOMAIN ReservedIdentityCache
                /\ result.cache[k] = ReservedIdentityCache[k]
        /\ \A k \in (DOMAIN localCache) \ (DOMAIN ReservedIdentityCache) :
                result.cache[k] = localCache[k]
        /\ \A k \in (DOMAIN ReservedIdentityCache) \ (DOMAIN localCache) :
                result.cache[k] = ReservedIdentityCache[k]

C12_Witness ==
    /\ Called("GetIdentityCache")
    /\ allocNil
    /\ localCache = [k \in {7} |-> {"app=foo"}]
    /\ result.kind = "cache"
    /\ DOMAIN result.cache = {1, 7}

\* the ids of the allocator's cache whose payload is a label-bearing key
RecognizedIDs ==
    {i \in DOMAIN allocCache : allocCache[i].kind = "GlobalIdentity"}

\* C13: GetIdentityCache() returns the map whose key set is (allocator-cache
\* entries with a recognized label-bearing payload) union (reserved
\* identities) union (node-local identities), a key of several sources
\* taking the value of the later one in the order allocator, reserved,
\* local; the allocator cache {7: app=foo, 8: app=bar} with reserved
\* {1: world} and an empty local store gives {1: world, 7: app=foo,
\* 8: app=bar}.
C13_CacheMerge ==
    Called("GetIdentityCache") =>
        /\ result.kind = "cache"
        /\ DOMAIN result.cache =
                RecognizedIDs \cup (DOMAIN ReservedIdentityCache)
                              \cup (DOMAIN localCache)
        /\ \A k \in DOMAIN result.cache :
                result.cache[k] =
                    IF k \in DOMAIN localCache THEN localCache[k]
                    ELSE IF k \in DOMAIN ReservedIdentityCache
                         THEN ReservedIdentityCache[k]
                         ELSE allocCache[k].LabelArray
        /\ ( /\ allocCache = [k \in {7, 8} |->
                    GlobalIdentity(IF k = 7 THEN {"app=foo"} ELSE {"app=bar"})]
             /\ localCache = IdentityCache )
            => result.cache = [k \in {1, 7, 8} |->
                    IF k = 1 THEN {"reserved:world"}
                    ELSE IF k = 7 THEN {"app=foo"} ELSE {"app=bar"}]

C13_Witness ==
    /\ Called("GetIdentityCache")
    /\ ~allocNil
    /\ allocCache = [k \in {7, 8} |->
            GlobalIdentity(IF k = 7 THEN {"app=foo"} ELSE {"app=bar"})]
    /\ localCache = IdentityCache
    /\ result.cache = [k \in {1, 7, 8} |->
            IF k = 1 THEN {"reserved:world"}
            ELSE IF k = 7 THEN {"app=foo"} ELSE {"app=bar"}]

\* a key of all three sources takes the local value
C13_CollisionReached ==
    /\ Called("GetIdentityCache")
    /\ 1 \in RecognizedIDs
    /\ 1 \in DOMAIN localCache
    /\ result.cache[1] = localCache[1]

\* the labels have an id in the allocator
AllocatorHas(lbls) ==
    \E i \in DOMAIN allocCache : allocCache[i] = GlobalIdentity(lbls)

\* C14: LookupIdentity(labels) returns the reserved identity of the labels
\* if there is one, whatever the later sources hold; else, the node-local
\* store being there, the local identity of the labels if there is one,
\* whatever the allocator holds; else not-found when the allocator is not
\* configured, when its call fails or when it returns NoID, and the
\* identity of the allocator's id with the labels otherwise. The handler
\* answers not-found for not-found and never an error.
C14_LookupOrder ==
    Called("LookupIdentity") =>
        LET lbls == call.lbls
            reserved == LookupReservedIdentityByLabels(lbls)
        IN  /\ (reserved # NilIdentity) => (result = reserved /\ response = "OK")
            /\ (reserved = NilIdentity /\ ~localNil) =>
                /\ (localLookup(lbls) # NilIdentity) =>
                        (result = localLookup(lbls) /\ response = "OK")
                /\ (localLookup(lbls) = NilIdentity) =>
                    /\ (allocNil \/ allocFails \/ ~AllocatorHas(lbls)) =>
                            (result = NilIdentity /\ response = "NotFound")
                    /\ (~allocNil /\ ~allocFails /\ AllocatorHas(lbls)) =>
                        /\ result.kind = "identity"
                        /\ result.ID # NoID
                        /\ allocCache[result.ID] = GlobalIdentity(lbls)
                        /\ result.Labels = lbls
                        /\ response = "OK"

\* the allocator is asked, does not fail and returns NoID
C14_Witness ==
    /\ Called("LookupIdentity")
    /\ call.lbls = {"app=foo"}
    /\ ~localNil /\ ~allocNil /\ ~allocFails
    /\ DOMAIN localCache = {7}
    /\ DOMAIN allocCache = {8}
    /\ ~AllocatorHas({"app=foo"})
    /\ result = NilIdentity
    /\ response = "NotFound"

\* a hit in the local store hides the allocator's id of the same labels
C14_LocalBeforeAllocator ==
    /\ Called("LookupIdentity")
    /\ localCache = [k \in {7} |-> {"app=foo"}]
    /\ allocCache = [k \in {8} |-> GlobalIdentity({"app=foo"})]
    /\ ~allocFails
    /\ result = NewIdentity(7, {"app=foo"})

\* a hit in the reserved table hides the local identity of the same labels
C14_ReservedBeforeLocal ==
    /\ Called("LookupIdentity")
    /\ localCache = [k \in {7} |-> {"reserved:world"}]
    /\ result = NewIdentity(1, {"reserved:world"})

\* C15: LookupIdentityByID(IdentityUnknown) returns the one fixed
\* unknown-identity record in every state of the allocator, of the local
\* store and of the reserved table.
C15_UnknownIsFixed ==
    (Called("LookupIdentityByID") /\ call.id = IdentityUnknown) =>
        /\ result = unknownIdentity
        /\ response = "OK"

\* the sentinel is looked up while the allocator holds entries and fails
C15_Witness ==
    /\ Called("LookupIdentityByID")
    /\ call.id = IdentityUnknown
    /\ ~allocNil /\ allocFails
    /\ DOMAIN allocCache = {1, 7, 8}
    /\ DOMAIN localCache = {1, 7}
    /\ result = unknownIdentity

\* the sentinel is looked up while neither the allocator nor the local
\* store is there
C15_UnknownWithoutSources ==
    /\ Called("LookupIdentityByID")
    /\ call.id = IdentityUnknown
    /\ allocNil /\ localNil
    /\ result = unknownIdentity

\* C16: LookupIdentityByID(id) resolves in the order unknown sentinel,
\* reserved-by-id table, node-local-by-id, distributed allocator by-id: an
\* id of the node-local store that is not the sentinel and not reserved is
\* returned from the local store, also when no distributed allocator is
\* configured.
C16_LookupByIDOrder ==
    Called("LookupIdentityByID") =>
        /\ (call.id = IdentityUnknown) => (result = unknownIdentity)
        /\ (call.id # IdentityUnknown /\ LookupReservedIdentity(call.id) # NilIdentity)
                => (result = LookupReservedIdentity(call.id))
        /\ ( /\ call.id # IdentityUnknown
             /\ LookupReservedIdentity(call.id) = NilIdentity
             /\ call.id \in DOMAIN localCache )
                => (result = NewIdentity(call.id, localCache[call.id]))

\* the part of the order the code keeps: the sentinel, then the reserved
\* table, then, with an allocator configured, the local store
C16_OrderWithAllocator ==
    Called("LookupIdentityByID") =>
        /\ (call.id = IdentityUnknown) => (result = unknownIdentity)
        /\ (call.id # IdentityUnknown /\ LookupReservedIdentity(call.id) # NilIdentity)
                => (result = LookupReservedIdentity(call.id))
        /\ ( /\ call.id # IdentityUnknown
             /\ LookupReservedIdentity(call.id) = NilIdentity
             /\ call.id \in DOMAIN localCache
             /\ ~allocNil )
                => (result = NewIdentity(call.id, localCache[call.id]))

\* a local id is looked up with no allocator configured: not found
C16_LocalHiddenWithoutAllocator ==
    /\ Called("LookupIdentityByID")
    /\ call.id = 7
    /\ allocNil
    /\ localCache = [k \in {7} |-> {"app=foo"}]
    /\ result = NilIdentity
    /\ response = "NotFound"

\* C17: LookupIdentityByID(id) never surfaces an allocator failure: for an
\* id that is not the unknown sentinel, not reserved and not local, an
\* allocator error, an id the allocator does not have and a payload of an
\* unrecognized type each give not-found, and a recognized payload gives
\* the identity of the requested id with the labels of the payload.
C17_AllocatorFailureIsNotFound ==
    ( /\ Called("LookupIdentityByID")
      /\ call.id # IdentityUnknown
      /\ LookupReservedIdentity(call.id) = NilIdentity
      /\ ~localNil
      /\ call.id \notin DOMAIN localCache ) =>
        /\ allocNil => (result = NilIdentity /\ response = "NotFound")
        /\ (~allocNil /\ allocFails) =>
                (result = NilIdentity /\ response = "NotFound")
        /\ (~allocNil /\ call.id \notin DOMAIN allocCache) =>
                (result = NilIdentity /\ response = "NotFound")
        /\ ( /\ ~allocNil /\ ~allocFails
             /\ call.id \in DOMAIN allocCache
             /\ allocCache[call.id].kind # "GlobalIdentity" ) =>
                (result = NilIdentity /\ response = "NotFound")
        /\ ( /\ ~allocNil /\ ~allocFails
             /\ call.id \in DOMAIN allocCache
             /\ allocCache[call.id].kind = "GlobalIdentity" ) =>
                /\ result = NewIdentity(call.id, allocCache[call.id].LabelArray)
                /\ response = "OK"

\* the allocator holds an unrecognized payload for the id
C17_Witness ==
    /\ Called("LookupIdentityByID")
    /\ call.id = 8
    /\ ~allocNil /\ ~allocFails /\ ~localNil
    /\ 8 \in DOMAIN allocCache
    /\ allocCache[8] = OtherKey
    /\ result = NilIdentity
    /\ response = "NotFound"

\* the allocator fails for an id it holds a recognized payload for
C17_ErrorReached ==
    /\ Called("LookupIdentityByID")
    /\ call.id = 8
    /\ ~allocNil /\ allocFails /\ ~localNil
    /\ 8 \in DOMAIN allocCache
    /\ allocCache[8] = GlobalIdentity({"app=bar"})
    /\ result = NilIdentity

\* the allocator returns a recognized payload
C17_FoundReached ==
    /\ Called("LookupIdentityByID")
    /\ call.id = 8
    /\ ~allocNil /\ ~allocFails
    /\ result = NewIdentity(8, {"app=bar"})
    /\ response = "OK"

\* the records GetIdentities may return
AllModels ==
    {GetModel(i, l) : i \in AllocIDs \cup LocalIDs, l \in ReadLabels}

\* how many records equal to r the three sources hold
RecordsOf(r) ==
    Cardinality({i \in RecognizedIDs : GetModel(i, allocCache[i].LabelArray) = r})
    + Cardinality({i \in DOMAIN ReservedIdentityCache :
                        GetModel(i, ReservedIdentityCache[i]) = r})
    + Cardinality({i \in DOMAIN localCache : GetModel(i, localCache[i]) = r})

\* the list holds one record per recognized allocator-cache entry, per
\* reserved identity and per node-local identity, and nothing else
OneRecordPerIdentity(list) ==
    /\ Range(list) \subseteq AllModels
    /\ \A r \in AllModels :
            Cardinality({i \in DOMAIN list : list[i] = r}) = RecordsOf(r)

\* C18: GetIdentities() never fails hard and returns one record per
\* recognized allocator-cache entry, per reserved identity and per
\* node-local identity, entries of an unrecognized type being skipped; with
\* no distributed allocator configured it returns the reserved and local
\* identities.
C18_ListNeverFails ==
    Called("GetIdentities") =>
        /\ result.kind = "list"
        /\ response = "OK"
        /\ OneRecordPerIdentity(result.list)

\* what the code keeps: with the allocator and the local store there, the
\* list is the one of the three sources
C18_ListWithAllocator ==
    (Called("GetIdentities") /\ ~allocNil /\ ~localNil) =>
        /\ result.kind = "list"
        /\ response = "OK"
        /\ OneRecordPerIdentity(result.list)

\* the list of an allocator with an unrecognized entry
C18_SkipReached ==
    /\ Called("GetIdentities")
    /\ ~allocNil
    /\ allocCache = [k \in {7, 8} |->
            IF k = 7 THEN OtherKey ELSE GlobalIdentity({"app=bar"})]
    /\ localCache = [k \in {7} |-> {"app=foo"}]
    /\ result.list = <<GetModel(8, {"app=bar"}), GetModel(1, {"reserved:world"}),
                       GetModel(7, {"app=foo"})>>

\* GetIdentities is called with no allocator configured
C18_NilAllocatorDereferenced ==
    /\ Called("GetIdentities")
    /\ allocNil
    /\ ~localNil
    /\ localCache = [k \in {7} |-> {"app=foo"}]
    /\ result = Panic

(***************************************************************************)
(* Events the watcher does not collect.                                    *)
(***************************************************************************)
\* the watcher, in Idle or in Draining, takes an event off the channel
WatcherReceives ==
    /\ pc \in {"First", "More"}
    /\ Receives

\* a step that leaves the batch, the position of the watcher and the number
\* of callbacks as they are
Inert ==
    /\ UNCHANGED <<added, deleted, pc>>
    /\ callbackCount' = callbackCount
    /\ recvLog' = recvLog

\* every event sent so far has the type typ, and no recognized key: the
\* events are queued, collected or ignored
OnlySent(typ) ==
    /\ recvLog = <<>>
    /\ \A x \in ignored : x.Typ = typ
    /\ \A i \in DOMAIN events :
            events[i].Typ = typ /\ events[i].Key.kind # "GlobalIdentity"

\* C19: receiving a Modify event, in Idle or in Draining, changes neither
\* added nor deleted and leaves the watcher where it is, and as long as
\* only Modify events have been sent the watcher has not left Idle for
\* Draining and UpdateIdentities has not been called.
C19_ModifyIsInert ==
    /\ [][(WatcherReceives /\ Head(events).Typ = EventTypeModify) => Inert]_vars
    /\ []((sentCount > 0 /\ OnlySent(EventTypeModify)) =>
            (callbackCount = 0 /\ pc \in {"First", "Done"}))

\* a Modify event was taken in Idle and another in Draining, with its id in
\* the batch
C19_Witness ==
    /\ [Typ |-> EventTypeModify, at |-> "First", held |-> FALSE] \in ignored
    /\ [Typ |-> EventTypeModify, at |-> "More", held |-> TRUE] \in ignored

\* a stream of Modify events has been taken whole
C19_ModifyStreamTaken ==
    /\ sentCount = MaxEvents
    /\ OnlySent(EventTypeModify)
    /\ events = <<>>
    /\ pc = "First"
    /\ callbackCount = 0

\* C20: a Create event whose key is not a recognized label-bearing key is
\* reported as not collected and changes neither added nor deleted, also
\* when its id is in one of them; taken in Idle it leaves the watcher in
\* Idle, and as long as only such events have been sent UpdateIdentities
\* has not been called.
C20_UnrecognizedCreateIsInert ==
    /\ [][( /\ WatcherReceives
            /\ Head(events).Typ = EventTypeCreate
            /\ Head(events).Key.kind # "GlobalIdentity" )
                => /\ Inert
                   /\ collectEvent(Head(events), added, deleted) =
                        [ok |-> FALSE, added |-> added, deleted |-> deleted]]_vars
    /\ []((sentCount > 0 /\ OnlySent(EventTypeCreate)) =>
            (callbackCount = 0 /\ pc \in {"First", "Done"}))

\* an unrecognized Create was taken in Idle, and another in Draining with
\* its id in the batch
C20_Witness ==
    /\ [Typ |-> EventTypeCreate, at |-> "First", held |-> FALSE] \in ignored
    /\ [Typ |-> EventTypeCreate, at |-> "More", held |-> TRUE] \in ignored

(***************************************************************************)
(* Enumeration of the allocator's cache.                                   *)
(***************************************************************************)
\* the ids GetIdentityCache can only have from the allocator
AllocatorOnlyIDs ==
    (DOMAIN allocCache)
        \ ((DOMAIN ReservedIdentityCache) \cup (DOMAIN localCache))

\* C21: GetIdentityCache() leaves out every entry of the allocator's cache
\* whose payload is nil or not a recognized label-bearing key, and has every
\* other entry of the allocator's cache with its labels, whatever the place
\* of the unrecognized entries in the order of the visit.
C21_UnrecognizedSkipped ==
    (Called("GetIdentityCache") /\ ~allocNil) =>
        /\ result.kind = "cache"
        /\ Range(call.order) = DOMAIN allocCache
        /\ \A i \in RecognizedIDs : i \in DOMAIN result.cache
        /\ \A i \in AllocatorOnlyIDs :
            /\ (i \in RecognizedIDs) =>
                    (result.cache[i] = allocCache[i].LabelArray)
            /\ (i \notin RecognizedIDs) => (i \notin DOMAIN result.cache)

\* an unrecognized entry and a nil entry are visited before a recognized
\* one, which is in the result
C21_Witness ==
    /\ Called("GetIdentityCache")
    /\ ~allocNil
    /\ allocCache = [k \in {1, 7, 8} |->
            IF k = 7 THEN OtherKey
            ELSE IF k = 1 THEN NilKey ELSE GlobalIdentity({"app=bar"})]
    /\ localCache = IdentityCache
    /\ call.order = <<7, 1, 8>>
    /\ result.cache = [k \in {1, 8} |->
            IF k = 1 THEN {"reserved:world"} ELSE {"app=bar"}]

(***************************************************************************)
(* stop().                                                                 *)
(***************************************************************************)
\* C22: stop() closes the cancellation channel exactly once: the first call
\* closes it and does nothing else, wherever the watcher is, also when it
\* has terminated; the channel stays closed; and a second call of stop() on
\* the same watcher ends in the panic of closing a closed channel, it is no
\* silent no-op.
C22_StopOnce ==
    /\ []((Len(stopLog) = 0) => (~stopChan /\ ~panicked))
    /\ []((Len(stopLog) = 1) => (stopChan /\ ~panicked))
    /\ []((Len(stopLog) >= 2) => (stopChan /\ panicked))
    /\ [][stopChan => stopChan']_vars
    /\ [][(stopLog' # stopLog) =>
            UNCHANGED <<events, closed, pc, added, deleted>>]_vars

\* stop() was called a first time after the watcher had terminated on the
\* closure of the event channel, and a second time
C22_Witness ==
    /\ Len(stopLog) = 2
    /\ stopLog[1] = "Done"
    /\ closed
    /\ stopChan
    /\ panicked

\* the first stop() after termination has closed the channel
C22_StopAfterDone ==
    /\ stopLog = <<"Done">>
    /\ stopChan
    /\ ~panicked

(***************************************************************************)
(* The owner callback.                                                     *)
(***************************************************************************)
\* C23: UpdateIdentities is called synchronously by the one goroutine of the
\* watcher: a call starts only when none is in progress, and while it is in
\* progress the watcher receives nothing from the event channel and changes
\* neither added nor deleted; the events sent meanwhile stay queued, behind
\* every delivered event, and are collected after the call has returned.
C23_CallbackExclusive ==
    /\ [][(callbackCount' # callbackCount) =>
            /\ pc = "More"
            /\ pc' = "Callback"
            /\ callbackCount' = callbackCount + 1]_vars
    /\ [][(pc = "Callback") =>
            /\ pc' \in {"Callback", "First"}
            /\ IsPrefix(events, events')
            /\ recvLog' = recvLog
            /\ ignored' = ignored
            /\ callbackCount' = callbackCount
            /\ (pc' = "Callback") => UNCHANGED <<added, deleted>>]_vars
    /\ [][(pc = "Callback" /\ pc' = "First") => (events' = events)]_vars
    /\ []((pc = "Callback") =>
            /\ Range(SeqNumbers(iterEvents)) \subseteq Range(deliveredLog)
            /\ \A i \in DOMAIN events :
                /\ events[i].seq \notin Range(recvLog)
                /\ \A n \in Range(deliveredLog) : n < events[i].seq)

\* a callback is in progress, the second of the run, and an event sent
\* since it began is queued
C23_Witness ==
    /\ pc = "Callback"
    /\ callbackCount = 2
    /\ Len(events) = 1
    /\ Len(deliveredLog) = 2
    /\ ~closed
    /\ ~stopChan

\* C24: no empty batch is delivered: whenever UpdateIdentities(added,
\* deleted) is called, and already while its batch is collected, added and
\* deleted together hold at least one key, whatever the stream: Modify
\* events, Creates of an unrecognized key, stop() and closure included.
C24_NoEmptyBatch ==
    /\ (pc \in {"More", "Callback"}) => (BatchKeys # {} /\ iterEvents # <<>>)
    /\ (callbackCount > 0) => (deliveredLog # <<>>)
    /\ Len(deliveredLog) >= callbackCount

\* a callback after a Modify event and a Create of an unrecognized key were
\* ignored in Idle
C24_Witness ==
    /\ pc = "Callback"
    /\ [Typ |-> EventTypeModify, at |-> "First", held |-> FALSE] \in ignored
    /\ [Typ |-> EventTypeCreate, at |-> "First", held |-> FALSE] \in ignored
    /\ Cardinality(BatchKeys) = 1

\* a callback of a batch of one key after closure and stop(), the events
\* taken after the first having been ignored or having cancelled nothing
C24_ClosedAndStopped ==
    /\ pc = "Callback"
    /\ closed
    /\ stopChan
    /\ ignored # {}
    /\ BatchKeys # {}

(***************************************************************************)
(* Cancellation and the batch being collected.                             *)
(***************************************************************************)
\* the watcher returns only out of the First loop, with nothing collected;
\* the More loop is left only for the callback, with the batch as it is,
\* and a call of stop() moves nothing
StopOnlyInIdle ==
    /\ [][(pc # "Done" /\ pc' = "Done") =>
            /\ pc = "First"
            /\ added = IdentityCache
            /\ deleted = IdentityCache]_vars
    /\ [][(pc = "More") => /\ pc' \in {"More", "Callback"}
                           /\ BatchKeys' # {}]_vars
    /\ [][(pc = "More" /\ pc' = "Callback") => UNCHANGED <<added, deleted>>]_vars
    /\ [][(stopChan' # stopChan) => UNCHANGED <<pc, events, added, deleted>>]_vars

\* C25, as claimed: once the first event of an iteration is collected the
\* watcher always reaches the flush and calls the owner with the batch,
\* also when stop() is called in between; cancellation is examined in Idle
\* only.
C25_BatchAlwaysFlushed ==
    /\ StopOnlyInIdle
    /\ (pc = "More" /\ stopChan) ~> (pc = "Callback" /\ BatchKeys # {})

\* C25, amended: cancellation is examined in Idle only, so no collected
\* batch is dropped by stop(): the More loop is left only for the callback
\* with the batch; and the watcher does reach the callback, also when stop()
\* is called in between, provided the More loop ends, that is, the
\* non-blocking receive eventually finds no event available.
C25_BatchFlushedIfDrained ==
    /\ StopOnlyInIdle
    /\ ([]<>(pc # "More")) =>
            ((pc = "More" /\ stopChan) ~> (pc = "Callback" /\ BatchKeys # {}))

\* stop() was called in the More loop, and the callback with the batch is
\* reached
C25_Witness ==
    /\ pc = "Callback"
    /\ stopLog = <<"More">>
    /\ stopChan
    /\ BatchKeys = {7}

(***************************************************************************)
(* Closure with events queued.                                             *)
(***************************************************************************)
\* C26: the recognized Creates and the Deletes queued in the channel when
\* the producer closes it are not lost: each is in the queue until it is
\* collected, and if stop() is not called the watcher does not terminate
\* before the queue is empty and every one of them has been delivered to
\* the owner in a batch.
C26_QueuedBeforeClosureDelivered ==
    /\ closed =>
        \A n \in closeQueue :
            \/ \E i \in DOMAIN events : events[i].seq = n
            \/ n \in Range(recvLog)
    /\ (closed /\ ~stopChan /\ events # <<>>) => (pc # "Done")
    /\ (pc = "Done" /\ ~stopChan) =>
        /\ closed
        /\ events = <<>>
        /\ closeQueue \subseteq Range(deliveredLog)

\* the channel was closed with three events queued, stop() was not called,
\* and the watcher has terminated with the three delivered
C26_Witness ==
    /\ pc = "Done"
    /\ ~stopChan
    /\ closed
    /\ closeQueue = {1, 2, 3}
    /\ deliveredLog = <<1, 2, 3>>

(***************************************************************************)
(* The last applicable event of a key.                                     *)
(***************************************************************************)
\* C27: in the batch being collected and in the batch delivered, a key is
\* in added iff the last recognized Create or Delete collected for it in
\* the iteration is a Create, and then with the labels of that Create; it
\* is in deleted, with empty labels, iff that last event is a Delete; a key
\* with no such event is in neither; and a Modify event or a Create of an
\* unrecognized key that is received counts for nothing.
C27_LastEventWins ==
    /\ []((pc \in {"More", "Callback"}) =>
            \A id \in IDs :
                LET n == LastFor(iterEvents, id) IN
                /\ (id \in DOMAIN added) <=>
                        (n > 0 /\ iterEvents[n].Typ = EventTypeCreate)
                /\ (id \in DOMAIN added) =>
                        (added[id] = iterEvents[n].Key.LabelArray)
                /\ (id \in DOMAIN deleted) <=>
                        (n > 0 /\ iterEvents[n].Typ = EventTypeDelete)
                /\ (id \in DOMAIN deleted) =>
                        (deleted[id] = EmptyLabelArray)
                /\ (n = 0) => (id \notin BatchKeys))
    /\ []((DOMAIN added) \cup (DOMAIN deleted) \subseteq IDs)
    /\ [][(WatcherReceives /\ ~Applicable(Head(events))) =>
            UNCHANGED <<added, deleted, iterEvents>>]_vars
    /\ [][(WatcherReceives /\ Applicable(Head(events))) =>
            (iterEvents' = Append(iterEvents, Head(events)))]_vars

\* a batch is delivered whose key was created, had a Create of an
\* unrecognized key ignored, and was created again with other labels
C27_Witness ==
    /\ pc = "Callback"
    /\ Len(iterEvents) = 2
    /\ iterEvents[1].ID = 7 /\ iterEvents[2].ID = 7
    /\ iterEvents[1].Typ = EventTypeCreate
    /\ iterEvents[2].Typ = EventTypeCreate
    /\ iterEvents[1].seq = 1 /\ iterEvents[2].seq = 3
    /\ iterEvents[1].Key # iterEvents[2].Key
    /\ [Typ |-> EventTypeCreate, at |-> "More", held |-> TRUE] \in ignored
    /\ added = MapSet(IdentityCache, 7, iterEvents[2].Key.LabelArray)
    /\ deleted = IdentityCache

====
